---- MODULE Spec2Model ----
(***************************************************************************)
(* Airbnb / Wyze lock synchronisation (src/sync.py).                       *)
(*                                                                         *)
(* The module models one deployment: the persisted state file, the codes   *)
(* on the lock, the clock, and the position of the current invocation of   *)
(* AirbnbWyzeSync.sync.  Ten specifications share the variables:           *)
(*   Spec        sequences of sync invocations (with kills and API faults) *)
(*   SpecLive    the same without kills and faults, under fair scheduling  *)
(*   SpecDetect  detect_changes applied to arbitrary pairs of snapshots    *)
(*   SpecApply   process_changes applied twice to the same change set      *)
(*   SpecLock    remove_code and cleanup_old_codes on a shared lock        *)
(*   SpecLoad    load_bookings_state on every content of the state file    *)
(*   SpecNotify  one pass under every behaviour of the notifications       *)
(*   SpecCode    one event parsed and its code added twice                 *)
(*   SpecPass    one pass on snapshots in which a booking kept its dates   *)
(*   SpecAnnounce  one pass with notifications, lock calls may fail        *)
(***************************************************************************)
EXTENDS Integers, Sequences, FiniteSets, TLC

VARIABLES
    stateFile,   \* bookings_state.json: [kind, bookings, warnings]
    lock,        \* the access-code records on the Wyze lock
    now,         \* wall clock, in minutes
    pc,          \* position of the running invocation
    dryRun,      \* self.dry_run of the running invocation
    lockApi,     \* self.lock_api: "none" until get_lock_api succeeded
    state,       \* the state loaded at sync line 581
    current,     \* current_bookings fetched at sync line 586
    changes,     \* the change set of detect_changes
    step,        \* index of the next lock call of process_changes
    calls,       \* history: lock API calls of this invocation, in order
    fetched,     \* history: outcome of the calendar fetch of this invocation
    wrote,       \* history: the state file was written in this invocation
    outcome,     \* history: how the last invocation ended
    faulted,     \* history: a lock API call of this invocation failed
    removed,     \* removed_count of cleanup_old_codes in this invocation
    prevBookings,\* history: the snapshot the state file held when this invocation started
    round        \* SpecApply: which application of the change set is running

vars == <<stateFile, lock, now, pc, dryRun, lockApi, state, current, changes,
          step, calls, fetched, wrote, outcome, faulted, prevBookings,
          removed, round>>

(***************************************************************************)
(* Bounds of the model.                                                    *)
(***************************************************************************)
MaxDate == 4        \* calendar dates are the days 1..MaxDate
MaxFeed == 3        \* the feed of Spec serves the first MaxFeed stays

(***************************************************************************)
(* Program constants.                                                      *)
(***************************************************************************)
GraceDays == 14             \* timedelta(days=14) in cleanup_old_codes
ActivationBuffer == 5       \* CODE_ACTIVATION_BUFFER_MINUTES default
ExpirationBuffer == 15      \* CODE_EXPIRATION_BUFFER_MINUTES default
CheckInMinute == 16 * 60    \* CHECK_IN_TIME default 16:00
CheckOutMinute == 11 * 60   \* CHECK_OUT_TIME default 11:00
DayMinutes == 24 * 60

Ids == {"b1", "b2"}
Dates == 1..MaxDate
NoPhone == <<>>             \* phone_last4 is None
Phones == {<<0>>}           \* the phone fragments guests may have
Codes == 0..(MaxDate - 1)    \* the code values in use

(***************************************************************************)
(* date.isoformat() and datetime.fromisoformat(): the snapshot stores      *)
(* dates as ISO strings; detect_changes compares the strings for equality  *)
(* and parses the end strings to order them.                               *)
(***************************************************************************)
Iso(d) == [iso |-> d]
FromIso(s) == s.iso

(***************************************************************************)
(* _parse_ical: one VEVENT (uid, DTSTART, DTEND, phone fragment of the     *)
(* description) becomes one booking record.  The code is the phone         *)
(* fragment when there is one, else the first digits of md5(uid+start+     *)
(* guest), modelled as a deterministic hash of (uid, start) into Codes.    *)
(* The record carries its uid (the key of the dict) for reference.         *)
(***************************************************************************)
Seed(id) == IF id = "b1" THEN 0 ELSE 1
GenCode(id, start) == (Seed(id) + start) % Cardinality(Codes)
ParseCode(id, start, phone) == IF phone # NoPhone THEN phone[1] ELSE GenCode(id, start)

Events == {ev \in [start : Dates, end : Dates, phone : Phones \cup {NoPhone}] :
              ev.start < ev.end}

ParseEvent(id, ev) ==
    [id          |-> id,
     start       |-> Iso(ev.start),
     end         |-> Iso(ev.end),
     code        |-> ParseCode(id, ev.start, ev.phone),
     phone_last4 |-> ev.phone]

ParseIcal(cal) == [id \in DOMAIN cal |-> ParseEvent(id, cal[id])]

Calendars == UNION {[D -> Events] : D \in SUBSET Ids}
Snapshots == {ParseIcal(cal) : cal \in Calendars}

\* the snapshots of guests without a phone fragment
PlainEvents == {ev \in Events : ev.phone = NoPhone}
PlainSnapshots == {ParseIcal(cal) : cal \in UNION {[D -> PlainEvents] : D \in SUBSET Ids}}

\* the calendars the feed serves in Spec: guests without a phone fragment,
\* staying one of the first MaxFeed stays (counted by end date, then start date)
StayIndex(ev) == ((ev.end - 2) * (ev.end - 1)) \div 2 + ev.start
FeedEvents == {ev \in PlainEvents : StayIndex(ev) <= MaxFeed}
FeedCalendars == UNION {[D -> FeedEvents] : D \in SUBSET Ids}

(***************************************************************************)
(* Iteration order of a Python set is arbitrary: every loop over a set of  *)
(* ids runs in the order a permutation of Ids gives.                       *)
(***************************************************************************)
Orders == {o \in [1..Cardinality(Ids) -> Ids] : \A i, j \in DOMAIN o : i # j => o[i] # o[j]}

InOrder(S, order) == SelectSeq(order, LAMBDA id : id \in S)

(***************************************************************************)
(* detect_changes(previous, current)                                       *)
(***************************************************************************)
\* Faulty variants of the classification, each wrong in one respect; the
\* properties below are shown to tell them from the program.
DatesDifferEndOnly(p, c) == p.end # c.end
IsExtensionPairSameStart(p, c) == FromIso(c.end) > FromIso(p.end) /\ c.start = p.start
IsExtensionPairOrEqual(p, c) == FromIso(c.end) >= FromIso(p.end)
CancelledIdsAllPrevious(prev_ids, curr_ids) == prev_ids
DatesOrCodeDiffer(p, c) == p.start # c.start \/ p.end # c.end \/ p.code # c.code

\* line 398 and line 403: the set differences of the two key sets
CancelledIds(prev_ids, curr_ids) == prev_ids \ curr_ids
NewIds(prev_ids, curr_ids) == curr_ids \ prev_ids

\* line 412: the dates of a booking present in both snapshots differ
DatesDiffer(p, c) == p.start # c.start \/ p.end # c.end

\* line 418: a later end makes the change an extension
IsExtensionPair(p, c) == FromIso(c.end) > FromIso(p.end)

DetectChanges(previous, curr, order) ==
    LET prev_ids == DOMAIN previous.bookings
        curr_ids == DOMAIN curr
        common   == curr_ids \cap prev_ids
        modified == {id \in common : DatesDiffer(previous.bookings[id], curr[id])}
        ext      == {id \in modified : IsExtensionPair(previous.bookings[id], curr[id])}
        Pairs(s) == [i \in DOMAIN s |-> [before |-> previous.bookings[s[i]],
                                         after |-> curr[s[i]]]]
        Prevs(s) == [i \in DOMAIN s |-> previous.bookings[s[i]]]
        Currs(s) == [i \in DOMAIN s |-> curr[s[i]]]
    IN  [cancellations |-> Prevs(InOrder(CancelledIds(prev_ids, curr_ids), order)),
         new_bookings  |-> Currs(InOrder(NewIds(prev_ids, curr_ids), order)),
         extensions    |-> Pairs(InOrder(ext, order)),
         date_changes  |-> Pairs(InOrder(modified \ ext, order))]

NoChanges == [cancellations |-> <<>>, new_bookings |-> <<>>,
              extensions |-> <<>>, date_changes |-> <<>>]

(***************************************************************************)
(* The lock (wyze-sdk client.locks).  A record is what the lock keeps per  *)
(* access code; the lock assigns the id and refuses a code value it        *)
(* already holds.  Every API call may also fail (fault = "error").         *)
(***************************************************************************)
GuestPrefix == "Guest_"
CodeName(code) == [prefix |-> GuestPrefix, rest |-> code]

\* the id the lock gives a new record: ids are unique among the records held
RecordIds == 1..(Cardinality(Codes) + 1)
FreshId(lk, code) ==
    IF \A r \in lk : r.id # code + 1 THEN code + 1
    ELSE CHOOSE n \in RecordIds : \A r \in lk : r.id # n

HasCode(lk, code) == \E r \in lk : r.code = code

\* client.locks.create_access_code: the new lock content and what the call reports
\* (owner is history: the booking the record was created for)
CreateAccessCode(lk, code, name, begin, end, fault, owner) ==
    IF fault = "error" THEN [lock |-> lk, res |-> "error"]
    ELSE IF HasCode(lk, code) THEN [lock |-> lk, res |-> "duplicate"]
    ELSE [lock |-> lk \cup {[id |-> FreshId(lk, code), code |-> code, name |-> name,
                            begin |-> begin, end |-> end, owner |-> owner]},
          res |-> "created"]

\* client.locks.delete_access_code
DeleteAccessCode(lk, id) == {r \in lk : r.id # id}

(***************************************************************************)
(* WyzeLockAPI.add_code: the validity window of a booking, then the create *)
(* call; every exception of the create call is caught and logged.          *)
(***************************************************************************)
\* faulty variant: the code becomes active when it is added
ActiveStartFromNow(start_iso) == now - ActivationBuffer

ActiveStart(start_iso) == FromIso(start_iso) * DayMinutes + CheckInMinute - ActivationBuffer
ActiveEnd(end_iso) == FromIso(end_iso) * DayMinutes + CheckOutMinute + ExpirationBuffer

AddCodeCatches(res) == TRUE

AddCode(lk, b, fault) ==
    LET r == CreateAccessCode(lk, b.code, CodeName(b.code),
                              ActiveStart(b.start), ActiveEnd(b.end), fault, b.id)
    IN  [lock |-> r.lock, res |-> r.res,
         raised |-> r.res \in {"error", "duplicate"} /\ ~AddCodeCatches(r.res)]

(***************************************************************************)
(* WyzeLockAPI.remove_code: list the codes, delete the first record whose  *)
(* code value equals the given one, stop.  A WyzeApiError of the list or   *)
(* delete call is logged and raised again.  The lock lists its records in  *)
(* an order of its own: `pick` is the record the loop meets first.         *)
(***************************************************************************)
\* faulty variant: the record is looked up by its name
MatchingByName(lk, code) == {r \in lk : r.name = CodeName(code)}

Matching(lk, code) == {r \in lk : r.code = code}

\* faulty variant: a code that is not on the lock is an error
RemoveCodeStrict(lk, code, pick, fault) ==
    IF fault = "error" THEN [lock |-> lk, res |-> "error", raised |-> TRUE]
    ELSE IF Matching(lk, code) = {} THEN [lock |-> lk, res |-> "not_found", raised |-> TRUE]
    ELSE [lock |-> DeleteAccessCode(lk, pick.id), res |-> "deleted", raised |-> FALSE]

RemoveCode(lk, code, pick, fault) ==
    IF fault = "error" THEN [lock |-> lk, res |-> "error", raised |-> TRUE]
    ELSE IF Matching(lk, code) = {} THEN [lock |-> lk, res |-> "not_found", raised |-> FALSE]
    ELSE [lock |-> DeleteAccessCode(lk, pick.id), res |-> "deleted", raised |-> FALSE]

(***************************************************************************)
(* process_changes: the lock calls of a change set, in the order the loops *)
(* issue them.  A cancellation is one remove_code, a new booking one       *)
(* add_code, an extension or date change remove_code(before) then          *)
(* add_code(after); extensions are handled before date changes.            *)
(***************************************************************************)
RemoveCall(b, kind) == [op |-> "remove", booking |-> b, kind |-> kind]
AddCall(b, kind) == [op |-> "add", booking |-> b, kind |-> kind]

\* faulty variants of the handling of one extension or date change
ChangeCallsAddFirst(change, kind) ==
    <<AddCall(change.after, kind), RemoveCall(change.before, kind)>>
ChangeCallsAddOnly(change, kind) == <<AddCall(change.after, kind)>>

\* lines 491-504: remove_code(before), then add_code(after)
ChangeCalls(change, kind) ==
    <<RemoveCall(change.before, kind), AddCall(change.after, kind)>>

RECURSIVE Flatten(_, _)
Flatten(chs, kind) ==
    IF chs = <<>> THEN <<>>
    ELSE ChangeCalls(Head(chs), kind) \o Flatten(Tail(chs), kind)

CancelCall(b) == RemoveCall(b, "cancellation")
NewCall(b) == AddCall(b, "new_booking")

\* faulty variant: the new bookings are handled before the cancellations
ProcessCallsNewFirst(chg) ==
    [i \in DOMAIN chg.new_bookings |-> NewCall(chg.new_bookings[i])]
    \o [i \in DOMAIN chg.cancellations |-> CancelCall(chg.cancellations[i])]
    \o Flatten(chg.extensions, "extension")
    \o Flatten(chg.date_changes, "date_change")

ProcessCalls(chg) ==
    [i \in DOMAIN chg.cancellations |-> CancelCall(chg.cancellations[i])]
    \o [i \in DOMAIN chg.new_bookings |-> NewCall(chg.new_bookings[i])]
    \o Flatten(chg.extensions, "extension")
    \o Flatten(chg.date_changes, "date_change")

TotalChanges(chg) ==
    Len(chg.cancellations) + Len(chg.new_bookings)
    + Len(chg.extensions) + Len(chg.date_changes)

\* the handlers of process_changes around add_code (lines 485-489, 515-519)
IsDuplicateMessage(res) == res = "duplicate"

\* one lock call of process_changes: the new lock, the log entry, whether
\* an exception leaves process_changes
DoCall(lk, call, pick, fault) ==
    IF call.op = "remove"
    THEN LET r == RemoveCode(lk, call.booking.code, pick, fault)
         IN  [lock |-> r.lock, raised |-> r.raised,
              entry |-> [op |-> "remove", code |-> call.booking.code,
                         id |-> call.booking.id, kind |-> call.kind, res |-> r.res]]
    ELSE LET r == AddCode(lk, call.booking, fault)
         IN  [lock |-> r.lock, raised |-> r.raised /\ ~IsDuplicateMessage(r.res),
              entry |-> [op |-> "add", code |-> call.booking.code,
                         id |-> call.booking.id, kind |-> call.kind, res |-> r.res]]

\* the records remove_code may meet first (any one when none matches)
Picks(lk, call) ==
    IF call.op = "remove" /\ Matching(lk, call.booking.code) # {}
    THEN Matching(lk, call.booking.code)
    ELSE {[id |-> 0]}

(***************************************************************************)
(* The state file.  load_bookings_state gives the empty default for a      *)
(* missing file and for one json cannot decode; save_bookings_state opens  *)
(* the file for writing (which empties it) and then dumps the state.       *)
(***************************************************************************)
NoBookings == <<>>
EmptyState == [bookings |-> NoBookings, warnings |-> {}]

MissingFile == [kind |-> "missing", bookings |-> NoBookings, warnings |-> {}]
TruncatedFile == [kind |-> "corrupt", bookings |-> NoBookings, warnings |-> {}]
ValidFile(st) == [kind |-> "valid", bookings |-> st.bookings, warnings |-> st.warnings]

LoadBookingsState(file) ==
    IF file.kind = "valid"
    THEN [bookings |-> file.bookings, warnings |-> file.warnings]
    ELSE EmptyState

(***************************************************************************)
(* check_api_key_expiration: the warning level of the configured expiry    *)
(* date at the current time.                                               *)
(***************************************************************************)
\* Spec runs at noon of the day whose sweep cutoff falls on day 2: the code of
\* a stay ending on day 2 is old enough to be swept, later ones are not
SyncTime == (GraceDays + 2) * DayMinutes + DayMinutes \div 2

NoExpiry == <<>>                                 \* WYZE_API_KEY_EXPIRES unset
\* in Spec the configured key expires 20 days after the run
KeyExpires == <<SyncTime + 20 * DayMinutes>>

DaysUntil(expires, t) == (expires - t) \div DayMinutes

WarningLevel(days_until) ==
    IF days_until < 0 THEN "expired"
    ELSE IF days_until <= 1 THEN "1day"
    ELSE IF days_until <= 7 THEN "1week"
    ELSE IF days_until <= 30 THEN "1month"
    ELSE "none"

\* the level to notify now, "none" when nothing is due or it was already sent
WarningDue(expires_cfg, t, st) ==
    IF expires_cfg = NoExpiry THEN "none"
    ELSE LET level == WarningLevel(DaysUntil(expires_cfg[1], t))
         IN  IF level # "none" /\ level \notin st.warnings THEN level ELSE "none"

(***************************************************************************)
(* cleanup_old_codes: the records the sweep deletes at time t.             *)
(***************************************************************************)
CutoffDate(t) == t - GraceDays * DayMinutes

\* faulty variants: every record counts as a guest code; a code that ends at
\* the cutoff is swept too
IsGuestCodeAny(r) == TRUE
SweepEligibleAtCutoff(lk, t) == {r \in lk : r.name.prefix = GuestPrefix /\ r.end <= CutoffDate(t)}

IsGuestCode(r) == r.name.prefix = GuestPrefix

SweepEligible(lk, t) == {r \in lk : IsGuestCode(r) /\ r.end < CutoffDate(t)}


(***************************************************************************)
(* Spec: sequences of invocations of AirbnbWyzeSync.sync, one at a time,   *)
(* each in a process of its own.                                           *)
(***************************************************************************)
FaultKinds == {"ok", "error"}

Init ==
    /\ stateFile = MissingFile
    /\ lock = {}
    /\ now = SyncTime
    /\ pc = "idle"
    /\ dryRun = FALSE
    /\ lockApi = "none"
    /\ state = EmptyState
    /\ current = NoBookings
    /\ changes = NoChanges
    /\ step = 1
    /\ calls = <<>>
    /\ fetched = "none"
    /\ wrote = FALSE
    /\ outcome = "none"
    /\ faulted = FALSE
    /\ prevBookings = NoBookings
    /\ removed = 0
    /\ round = 0

\* main(): a new process constructs AirbnbWyzeSync(dry_run) and calls sync()
StartSync(d) ==
    /\ pc = "idle"
    /\ round = 0
    /\ pc' = "expiry"
    /\ dryRun' = d
    /\ lockApi' = "none"
    /\ state' = EmptyState
    /\ current' = NoBookings
    /\ changes' = NoChanges
    /\ step' = 1
    /\ calls' = <<>>
    /\ fetched' = "none"
    /\ wrote' = FALSE
    /\ outcome' = "running"
    /\ faulted' = FALSE
    /\ prevBookings' = LoadBookingsState(stateFile).bookings
    /\ removed' = 0
    /\ UNCHANGED <<stateFile, lock, now, round>>

\* check_api_key_expiration, no warning to send
ExpiryQuiet ==
    /\ pc = "expiry"
    /\ WarningDue(KeyExpires, now, LoadBookingsState(stateFile)) = "none"
    /\ pc' = "fetch"
    /\ UNCHANGED <<stateFile, lock, now, dryRun, lockApi, state, current, changes,
                   step, calls, fetched, wrote, outcome, faulted, prevBookings,
                   removed, round>>

\* check_api_key_expiration, a warning is due: notify, set the flag in the
\* loaded state and open the state file for writing
ExpiryWarn ==
    /\ pc = "expiry"
    /\ LET st    == LoadBookingsState(stateFile)
           level == WarningDue(KeyExpires, now, st)
       IN  /\ level # "none"
           /\ state' = [st EXCEPT !.warnings = @ \cup {level}]
    /\ stateFile' = TruncatedFile
    /\ wrote' = TRUE
    /\ pc' = "expiry_dump"
    /\ UNCHANGED <<lock, now, dryRun, lockApi, current, changes, step, calls,
                   fetched, outcome, faulted, prevBookings,
                   removed, round>>

\* json.dump of save_bookings_state in check_api_key_expiration
ExpiryDump ==
    /\ pc = "expiry_dump"
    /\ stateFile' = ValidFile(state)
    /\ pc' = "fetch"
    /\ UNCHANGED <<lock, now, dryRun, lockApi, state, current, changes, step, calls,
                   fetched, wrote, outcome, faulted, prevBookings,
                   removed, round>>

\* faulty variant: sync goes on with an empty result
EmptyFetchGoesOn(cur) == FALSE

\* sync line 587: an empty result of fetch_current_bookings ends the invocation
EmptyFetchReturns(cur) == DOMAIN cur = {}

\* load_bookings_state, then fetch_current_bookings fails (request or parse
\* error): it returns {} and sync goes on as for an empty calendar
FetchFails ==
    /\ pc = "fetch"
    /\ state' = LoadBookingsState(stateFile)
    /\ current' = NoBookings
    /\ fetched' = "failed"
    /\ IF EmptyFetchReturns(NoBookings)
       THEN /\ pc' = "idle"
            /\ outcome' = "no_bookings"
            /\ UNCHANGED changes
       ELSE /\ outcome' = outcome
            /\ \E order \in Orders :
                  LET chg == DetectChanges(LoadBookingsState(stateFile), NoBookings, order)
                  IN  /\ changes' = chg
                      /\ pc' = IF TotalChanges(chg) = 0 THEN "sweep" ELSE "apply"
    /\ UNCHANGED <<stateFile, lock, now, dryRun, lockApi, step, calls, wrote,
                   faulted, prevBookings,
                   removed, round>>

\* load_bookings_state, fetch_current_bookings succeeds with calendar cal,
\* then detect_changes
FetchOk(cal, order) ==
    /\ pc = "fetch"
    /\ LET st  == LoadBookingsState(stateFile)
           cur == ParseIcal(cal)
           chg == DetectChanges(st, cur, order)
       IN  /\ state' = st
           /\ current' = cur
           /\ fetched' = IF DOMAIN cur = {} THEN "empty" ELSE "ok"
           /\ IF EmptyFetchReturns(cur)
              THEN /\ pc' = "idle"
                   /\ outcome' = "no_bookings"
                   /\ UNCHANGED changes
              ELSE /\ changes' = chg
                   /\ pc' = IF TotalChanges(chg) = 0 THEN "sweep" ELSE "apply"
                   /\ outcome' = outcome
    /\ UNCHANGED <<stateFile, lock, now, dryRun, lockApi, step, calls, wrote,
                   faulted, prevBookings,
                   removed, round>>

\* process_changes in dry-run mode only logs
ApplyDryRun ==
    /\ pc = "apply"
    /\ dryRun
    /\ pc' = "sweep"
    /\ UNCHANGED <<stateFile, lock, now, dryRun, lockApi, state, current, changes,
                   step, calls, fetched, wrote, outcome, faulted, prevBookings,
                   removed, round>>

\* process_changes: get_lock_api; when it fails process_changes returns
Connect(fault) ==
    /\ pc = "apply"
    /\ ~dryRun
    /\ IF fault = "ok"
       THEN lockApi' = "ok" /\ pc' = "calls" /\ faulted' = faulted
       ELSE lockApi' = lockApi /\ pc' = "sweep" /\ faulted' = TRUE
    /\ UNCHANGED <<stateFile, lock, now, dryRun, state, current, changes, step,
                   calls, fetched, wrote, outcome, prevBookings,
                   removed, round>>

\* process_changes: the next lock call of the change set
ApplyCall(fault) ==
    /\ pc = "calls"
    /\ round = 0
    /\ LET plan == ProcessCalls(changes)
           call == plan[step]
       IN  \E pick \in Picks(lock, call) :
              LET r == DoCall(lock, call, pick, fault)
              IN  /\ lock' = r.lock
                  /\ calls' = Append(calls, r.entry)
                  /\ step' = step + 1
                  /\ faulted' = (faulted \/ fault = "error")
                  /\ IF r.raised
                     THEN pc' = "idle" /\ outcome' = "raised"
                     ELSE /\ pc' = IF step = Len(plan) THEN "sweep" ELSE "calls"
                          /\ outcome' = outcome
    /\ UNCHANGED <<stateFile, now, dryRun, lockApi, state, current, changes,
                   fetched, wrote, prevBookings,
                   removed, round>>

\* the deletions of the sweep, as log entries in a fixed order
RECURSIVE DeleteEntries(_, _)
DeleteEntries(recs, failed) ==
    IF recs = {} THEN <<>>
    ELSE LET r == CHOOSE x \in recs : \A y \in recs : x.id <= y.id
         IN  <<[op |-> "delete", code |-> r.code, id |-> r.owner, kind |-> "sweep",
                record |-> r.id, name |-> r.name, end |-> r.end,
                res |-> IF r \in failed THEN "error" ELSE "deleted"]>>
             \o DeleteEntries(recs \ {r}, failed)

\* faulty variant: the count is raised before the delete call is made
RemovedCountAttempts(eligible, failed, dry) == Cardinality(eligible)

\* removed_count: raised once per eligible code in a dry run (line 550), and
\* once per delete call that returned otherwise (line 560)
RemovedCount(eligible, failed, dry) ==
    IF dry THEN Cardinality(eligible) ELSE Cardinality(eligible \ failed)

\* faulty variant: the sweep deletes in a dry run too
SweepSkipsNever(dry) == FALSE

\* lines 548-551: in a dry run the sweep counts an old code and goes on to
\* the next one without the delete call
SweepSkips(dry) == dry

\* cleanup_old_codes: fault "error" is a failure of get_lock_api or get_keys,
\* caught by the outer handler; a failed delete is caught per record
Sweep(fault, failed) ==
    /\ pc = "sweep"
    /\ failed \subseteq SweepEligible(lock, now)
    /\ IF fault = "error"
       THEN /\ failed = {}
            /\ faulted' = TRUE
            /\ removed' = 0
            /\ UNCHANGED <<lock, lockApi, calls>>
       ELSE /\ lockApi' = "ok"
            /\ removed' = RemovedCount(SweepEligible(lock, now), failed, dryRun)
            /\ IF SweepSkips(dryRun)
               THEN /\ failed = {}
                    /\ UNCHANGED <<lock, calls, faulted>>
               ELSE /\ lock' = lock \ (SweepEligible(lock, now) \ failed)
                    /\ calls' = calls \o DeleteEntries(SweepEligible(lock, now), failed)
                    /\ faulted' = (faulted \/ failed # {})
    /\ pc' = "save"
    /\ UNCHANGED <<stateFile, now, dryRun, state, current, changes, step, fetched,
                   wrote, outcome, prevBookings, round>>

\* faulty variant: a dry run keeps the snapshot it loaded
NewStateUnlessDryRun(cur) ==
    [bookings |-> IF dryRun THEN state.bookings ELSE cur, warnings |-> {}]

\* sync lines 604-608: new_state holds the fetched bookings only
NewState(cur) == [bookings |-> cur, warnings |-> {}]

\* save_bookings_state: open(state_file, 'w')
SaveOpen ==
    /\ pc = "save"
    /\ state' = NewState(current)
    /\ stateFile' = TruncatedFile
    /\ wrote' = TRUE
    /\ pc' = "save_dump"
    /\ UNCHANGED <<lock, now, dryRun, lockApi, current, changes, step, calls,
                   fetched, outcome, faulted, prevBookings,
                   removed, round>>

\* save_bookings_state: json.dump; sync returns
SaveDump ==
    /\ pc = "save_dump"
    /\ stateFile' = ValidFile(state)
    /\ pc' = "idle"
    /\ outcome' = "saved"
    /\ UNCHANGED <<lock, now, dryRun, lockApi, state, current, changes, step, calls,
                   fetched, wrote, faulted, prevBookings,
                   removed, round>>

\* the process is killed (SIGKILL, power loss) anywhere inside sync: what it
\* held in memory is gone
Kill ==
    /\ pc \notin {"idle"}
    /\ round = 0
    /\ pc' = "idle"
    /\ outcome' = IF pc = "save_dump" THEN "killed_in_save" ELSE "killed"
    /\ dryRun' = FALSE
    /\ lockApi' = "none"
    /\ state' = EmptyState
    /\ current' = NoBookings
    /\ changes' = NoChanges
    /\ step' = 1
    /\ calls' = <<>>
    /\ fetched' = "none"
    /\ faulted' = FALSE
    /\ removed' = 0
    /\ UNCHANGED <<stateFile, lock, now, wrote, prevBookings, round>>

Next ==
    \/ \E d \in BOOLEAN : StartSync(d)
    \/ ExpiryQuiet
    \/ ExpiryWarn
    \/ ExpiryDump
    \/ FetchFails
    \/ \E cal \in FeedCalendars, order \in Orders : FetchOk(cal, order)
    \/ ApplyDryRun
    \/ \E fault \in FaultKinds : Connect(fault)
    \/ \E fault \in FaultKinds : ApplyCall(fault)
    \/ \E fault \in FaultKinds, failed \in SUBSET lock : Sweep(fault, failed)
    \/ SaveOpen
    \/ SaveDump
    \/ Kill

Spec == Init /\ [][Next]_vars

(***************************************************************************)
(* SpecDetect: detect_changes on every pair of a persisted snapshot and a  *)
(* current snapshot, in every iteration order of the id sets.              *)
(***************************************************************************)
InitDetect ==
    /\ stateFile \in {ValidFile([bookings |-> P, warnings |-> {}]) : P \in Snapshots}
    /\ current \in Snapshots
    /\ lock = {}
    /\ now = SyncTime
    /\ pc = "detect"
    /\ dryRun = FALSE
    /\ lockApi = "none"
    /\ state = EmptyState
    /\ changes = NoChanges
    /\ step = 1
    /\ calls = <<>>
    /\ fetched = "ok"
    /\ wrote = FALSE
    /\ outcome = "running"
    /\ faulted = FALSE
    /\ prevBookings = stateFile.bookings
    /\ removed = 0
    /\ round = 0

\* sync lines 581 and 590: load the state, then detect_changes(state, current)
Detect(order) ==
    /\ pc = "detect"
    /\ state' = LoadBookingsState(stateFile)
    /\ changes' = DetectChanges(LoadBookingsState(stateFile), current, order)
    /\ pc' = "detected"
    /\ UNCHANGED <<stateFile, lock, now, dryRun, lockApi, current, step, calls,
                   fetched, wrote, outcome, faulted, prevBookings,
                   removed, round>>

NextDetect == \E order \in Orders : Detect(order)

SpecDetect == InitDetect /\ [][NextDetect]_vars

\* the ids a list of the change set names, position by position
BookingId(b) == b.id
AfterId(change) == change.after.id
CancelledSeq == [i \in DOMAIN changes.cancellations |-> BookingId(changes.cancellations[i])]
NewSeq == [i \in DOMAIN changes.new_bookings |-> BookingId(changes.new_bookings[i])]
ExtendedSeq == [i \in DOMAIN changes.extensions |-> AfterId(changes.extensions[i])]
DateChangedSeq == [i \in DOMAIN changes.date_changes |-> AfterId(changes.date_changes[i])]

Count(id, s) == Cardinality({i \in DOMAIN s : s[i] = id})
Occurrences(id) ==
    Count(id, CancelledSeq) + Count(id, NewSeq)
    + Count(id, ExtendedSeq) + Count(id, DateChangedSeq)

Range(s) == {s[i] : i \in DOMAIN s}
Listed == Range(CancelledSeq) \cup Range(NewSeq) \cup Range(ExtendedSeq)
          \cup Range(DateChangedSeq)

PrevIds == DOMAIN state.bookings
CurrIds == DOMAIN current
SameDates(id) ==
    /\ id \in PrevIds \cap CurrIds
    /\ state.bookings[id].start = current[id].start
    /\ state.bookings[id].end = current[id].end
EndLater(id) ==
    /\ id \in PrevIds \cap CurrIds
    /\ FromIso(current[id].end) > FromIso(state.bookings[id].end)
ThePair(id) == [before |-> state.bookings[id], after |-> current[id]]

\* C1: detect_changes puts every id of previous or current in exactly one
\* class: it occurs at most once over the four lists, and it occurs in none
\* exactly when it is in both snapshots with equal start and equal end; the
\* lists name no other id.
C1_Partition ==
    pc = "detected" =>
        /\ Listed \subseteq PrevIds \cup CurrIds
        /\ \A id \in PrevIds \cup CurrIds :
              /\ Occurrences(id) <= 1
              /\ (Occurrences(id) = 0) <=> SameDates(id)

\* both ids are classified, one unchanged and one in a list
C1_Witness ==
    /\ pc = "detected"
    /\ PrevIds \cup CurrIds = Ids
    /\ \E id \in Ids : Occurrences(id) = 0
    /\ \E id \in Ids : Occurrences(id) = 1 /\ id \in PrevIds \cap CurrIds

\* C2: a booking in both snapshots whose current end is later than its
\* previous end is reported as the (before, after) pair in extensions and
\* has no entry in date_changes, whatever its start did.
C2_LaterEndIsExtension ==
    pc = "detected" =>
        \A id \in Ids :
            EndLater(id) =>
                /\ ThePair(id) \in Range(changes.extensions)
                /\ id \notin Range(DateChangedSeq)

\* a later end with an earlier start, and one with a later start, both
\* reported as extensions of the same pass
C2_Witness ==
    /\ pc = "detected"
    /\ \E id \in Ids :
          /\ EndLater(id)
          /\ FromIso(current[id].start) < FromIso(state.bookings[id].start)
          /\ ThePair(id) \in Range(changes.extensions)
    /\ \E id \in Ids :
          /\ EndLater(id)
          /\ FromIso(current[id].start) > FromIso(state.bookings[id].start)
          /\ ThePair(id) \in Range(changes.extensions)

\* C3: a booking in both snapshots whose dates differ and whose current end
\* is not later than its previous end (in particular: start changed, end
\* equal) has exactly one entry in date_changes, the (before, after) pair.
C3_OtherChangeIsDateChange ==
    pc = "detected" =>
        \A id \in PrevIds \cap CurrIds :
            (~SameDates(id) /\ ~EndLater(id)) =>
                /\ Count(id, DateChangedSeq) = 1
                /\ ThePair(id) \in Range(changes.date_changes)
                /\ id \notin Range(ExtendedSeq)

\* the start moved earlier with the end unchanged: one date change
C3_Witness ==
    /\ pc = "detected"
    /\ \E id \in PrevIds \cap CurrIds :
          /\ current[id].end = state.bookings[id].end
          /\ FromIso(current[id].start) < FromIso(state.bookings[id].start)
          /\ Count(id, DateChangedSeq) = 1

\* C4: cancellations holds exactly the previous records of the ids in
\* previous minus current, new_bookings exactly the current records of the
\* ids in current minus previous, each once; for an empty current snapshot
\* every previous booking is a cancellation and the other lists are empty.
C4_CancellationsAndNew ==
    pc = "detected" =>
        /\ Range(changes.cancellations) = {state.bookings[id] : id \in PrevIds \ CurrIds}
        /\ Len(changes.cancellations) = Cardinality(PrevIds \ CurrIds)
        /\ Range(changes.new_bookings) = {current[id] : id \in CurrIds \ PrevIds}
        /\ Len(changes.new_bookings) = Cardinality(CurrIds \ PrevIds)
        /\ (CurrIds = {} =>
               /\ Len(changes.cancellations) = Cardinality(PrevIds)
               /\ changes.new_bookings = <<>>
               /\ changes.extensions = <<>>
               /\ changes.date_changes = <<>>)

\* previous = {b1}, current = {}: one cancellation, nothing else
C4_Witness ==
    /\ pc = "detected"
    /\ PrevIds = {"b1"}
    /\ CurrIds = {}
    /\ changes.cancellations = <<state.bookings["b1"]>>
    /\ TotalChanges(changes) = 1

(***************************************************************************)
(* Properties of Spec.                                                     *)
(***************************************************************************)
\* C7: an invocation killed before its final save_bookings_state leaves the
\* persisted snapshot as it was when the invocation started (the first half
\* of the claim; the retry can only be right when this holds).
C7_KilledKeepsSnapshot ==
    outcome = "killed" => LoadBookingsState(stateFile).bookings = prevBookings

\* C8: in an invocation whose calendar fetch failed, the state file was not
\* written, not even by check_api_key_expiration.
C8_FailedFetchWritesNothing ==
    fetched = "failed" => ~wrote

\* C9: in an invocation whose fetch failed or gave no bookings, no lock call
\* was made and the change set names no cancellation (nor anything else).
C9_EmptyFetchIsNoCancellation ==
    fetched \in {"failed", "empty"} =>
        /\ calls = <<>>
        /\ changes.cancellations = <<>>
        /\ TotalChanges(changes) = 0

\* a failed fetch while the persisted snapshot holds both bookings
C9_Witness ==
    /\ fetched = "failed"
    /\ pc = "idle"
    /\ DOMAIN state.bookings = Ids
    /\ calls = <<>>

\* the changes of the kinds handled by lines 491-519
Updates == Range(changes.extensions) \cup Range(changes.date_changes)

IsUpdateAdd(e) == e.op = "add" /\ e.kind \in {"extension", "date_change"}

\* entry i is add_code(after) of change ch, straight after remove_code(before)
RemoveThenAdd(ch, i) ==
    /\ i > 1
    /\ calls[i].op = "add"
    /\ calls[i].id = ch.after.id
    /\ calls[i].code = ch.after.code
    /\ calls[i - 1].op = "remove"
    /\ calls[i - 1].id = ch.before.id
    /\ calls[i - 1].code = ch.before.code
    /\ calls[i - 1].kind = calls[i].kind

\* process_changes issued its last lock call
PassDone == lockApi = "ok" /\ step = Len(ProcessCalls(changes)) + 1 /\ outcome # "raised"

\* C10: every add_code of an extension or date change comes straight after
\* the remove_code of the before record of the same change, and a pass that
\* ran to its end has made both calls, in this order, for every such change.
C10_RemoveBeforeAdd ==
    /\ \A i \in DOMAIN calls :
          IsUpdateAdd(calls[i]) => \E ch \in Updates : RemoveThenAdd(ch, i)
    /\ PassDone => \A ch \in Updates : \E i \in DOMAIN calls : RemoveThenAdd(ch, i)

\* a pass with an extension and a date change, both removed and re-created
C10_Witness ==
    /\ PassDone
    /\ changes.extensions # <<>>
    /\ changes.date_changes # <<>>
    /\ \A ch \in Updates :
          \E i \in DOMAIN calls :
              RemoveThenAdd(ch, i) /\ calls[i - 1].res = "deleted" /\ calls[i].res = "created"

(***************************************************************************)
(* SpecLive: invocations that are never killed, with the calendar and the  *)
(* lock always answering; cron starts sync again and again, and a started  *)
(* invocation runs to its end.                                             *)
(***************************************************************************)
NextLive ==
    \/ StartSync(FALSE)
    \/ ExpiryQuiet
    \/ ExpiryWarn
    \/ ExpiryDump
    \/ \E cal \in FeedCalendars, order \in Orders : FetchOk(cal, order)
    \/ Connect("ok")
    \/ ApplyCall("ok")
    \/ Sweep("ok", {})
    \/ SaveOpen
    \/ SaveDump

SpecLive == Init /\ [][NextLive]_vars /\ WF_vars(NextLive)

Persisted(id) == id \in DOMAIN LoadBookingsState(stateFile).bookings
RemoveCalledFor(id) == \E i \in DOMAIN calls : calls[i].op = "remove" /\ calls[i].id = id

\* C5: a booking of the persisted snapshot that no later fetch contains
\* gets its remove_code call in some later invocation.
C5_NoCancellationLost ==
    \A id \in Ids :
        []((Persisted(id) /\ [](id \notin DOMAIN current)) => <>RemoveCalledFor(id))

(***************************************************************************)
(* SpecApply: process_changes applied twice in a row to the change set of  *)
(* (P, C), on the lock a first sync of calendar P has filled; the guests   *)
(* have no phone fragment, so a code follows the start date.               *)
(***************************************************************************)
RECURSIVE ApplyAll(_, _)
ApplyAll(lk, plan) ==
    IF plan = <<>> THEN lk
    ELSE LET call == Head(plan)
             pick == CHOOSE r \in Picks(lk, call) : TRUE
         IN  ApplyAll(DoCall(lk, call, pick, "ok").lock, Tail(plan))

\* the lock after the sync that persisted snapshot P, started on an empty lock
LockOf(P, order) == ApplyAll({}, ProcessCalls(DetectChanges(EmptyState, P, order)))

InitApply ==
    /\ stateFile \in {ValidFile([bookings |-> P, warnings |-> {}]) : P \in PlainSnapshots}
    /\ current \in PlainSnapshots
    /\ state = LoadBookingsState(stateFile)
    /\ changes \in {DetectChanges(state, current, order) : order \in Orders}
    /\ TotalChanges(changes) > 0
    /\ lock \in {LockOf(state.bookings, order) : order \in Orders}
    /\ now = 0
    /\ pc = "calls"
    /\ dryRun = FALSE
    /\ lockApi = "ok"
    /\ step = 1
    /\ calls = <<>>
    /\ fetched = "ok"
    /\ wrote = FALSE
    /\ outcome = "running"
    /\ faulted = FALSE
    /\ prevBookings = state.bookings
    /\ removed = 0
    /\ round = 1

\* the next lock call of the first or the second application
ApplyRound(fault) ==
    /\ pc = "calls"
    /\ round \in {1, 2}
    /\ LET plan == ProcessCalls(changes)
           call == plan[step]
       IN  \E pick \in Picks(lock, call) :
              LET r == DoCall(lock, call, pick, fault)
              IN  /\ lock' = r.lock
                  /\ calls' = Append(calls, r.entry)
                  /\ faulted' = (faulted \/ fault = "error")
                  /\ IF r.raised
                     THEN pc' = "applied" /\ outcome' = "raised" /\ UNCHANGED <<step, round>>
                     ELSE /\ outcome' = outcome
                          /\ IF step < Len(plan)
                             THEN step' = step + 1 /\ UNCHANGED <<pc, round>>
                             ELSE IF round = 1
                             THEN step' = 1 /\ round' = 2 /\ UNCHANGED pc
                             ELSE pc' = "applied" /\ UNCHANGED <<step, round>>
    /\ UNCHANGED <<stateFile, now, dryRun, lockApi, state, current, changes,
                   fetched, wrote, prevBookings,
                   removed>>

NextApply == \E fault \in FaultKinds : ApplyRound(fault)

SpecApply == InitApply /\ [][NextApply]_vars

RecordsOf(id) == {r \in lock : r.owner = id}

\* C6: through both applications the lock never holds two code records
\* created for the same booking, and when every lock call is answered no
\* error leaves process_changes: a create call that reports a duplicate
\* counts as done.
C6_TwiceIsOnce ==
    /\ \A id \in Ids : Cardinality(RecordsOf(id)) <= 1
    /\ ~faulted => outcome # "raised"

\* the second application ran to its end, met a duplicate on create, and
\* the moved booking has its one record
C6_Witness ==
    /\ pc = "applied"
    /\ round = 2
    /\ ~faulted
    /\ outcome # "raised"
    /\ \E i \in DOMAIN calls : calls[i].op = "add" /\ calls[i].res = "duplicate"
    /\ \E ch \in Updates :
          ch.before.code # ch.after.code /\ Cardinality(RecordsOf(ch.after.id)) = 1

(***************************************************************************)
(* Failures of single lock calls inside process_changes (Spec).            *)
(***************************************************************************)
IsUpdateRemove(e) == e.op = "remove" /\ e.kind \in {"extension", "date_change"}

\* entry i + 1 is the add_code of the change whose remove_code is entry i
AddFollows(i) ==
    /\ i < Len(calls)
    /\ calls[i + 1].op = "add"
    /\ calls[i + 1].id = calls[i].id
    /\ calls[i + 1].kind = calls[i].kind

\* C11: when remove_code(before) of an extension or date change failed (not
\* as not-found), add_code(after) of the same change is the next lock call
\* of the pass.
C11_FailOpenOnRevoke ==
    \A i \in DOMAIN calls :
        (IsUpdateRemove(calls[i]) /\ calls[i].res = "error" /\ pc # "calls")
            => AddFollows(i)

\* get_lock_api failed in process_changes: a change set was to be applied for
\* real, the invocation is past the apply phase, and no lock call was issued
ApplyAborted ==
    /\ fetched = "ok"
    /\ ~dryRun
    /\ TotalChanges(changes) > 0
    /\ step = 1
    /\ pc \in {"sweep", "save", "save_dump", "idle"}

\* C12: an invocation whose apply phase was aborted because the lock could
\* not be reached leaves the persisted snapshot as it was when it started.
C12_AbortedApplyKeepsSnapshot ==
    (ApplyAborted /\ outcome = "saved")
        => LoadBookingsState(stateFile).bookings = prevBookings

\* a lock call of the pass failed for a reason other than duplicate / not found
CallFailed(e) == e.op \in {"add", "remove"} /\ e.res = "error"

\* every item of the change set had its lock calls issued
AllProcessed == step = Len(ProcessCalls(changes)) + 1

\* C13: once the pass is over, a failed add or remove call has not kept any
\* item of the change set from being processed.
C13_FailureDoesNotStopPass ==
    (pc # "calls" /\ \E i \in DOMAIN calls : CallFailed(calls[i])) => AllProcessed

\* the ids the change set chg holds in the list of the given kind
IdsOfKind(chg, kind) ==
    IF kind = "cancellation" THEN {chg.cancellations[i].id : i \in DOMAIN chg.cancellations}
    ELSE IF kind = "new_booking" THEN {chg.new_bookings[i].id : i \in DOMAIN chg.new_bookings}
    ELSE IF kind = "extension" THEN {chg.extensions[i].after.id : i \in DOMAIN chg.extensions}
    ELSE {chg.date_changes[i].after.id : i \in DOMAIN chg.date_changes}

\* what the next invocation detects when the calendar has not changed
NextDetection ==
    DetectChanges(LoadBookingsState(stateFile), current, CHOOSE order \in Orders : TRUE)

\* C14: after a pass that saved its state, every booking whose add or remove
\* call failed is still detected, with the same kind of change, by the next
\* invocation against the same calendar.
C14_FailedStaysPending ==
    outcome = "saved" =>
        \A i \in DOMAIN calls :
            CallFailed(calls[i]) => calls[i].id \in IdsOfKind(NextDetection, calls[i].kind)

\* the step is a remove_code call that found no record with the code
NotFoundStep ==
    /\ Len(calls') = Len(calls) + 1
    /\ calls'[Len(calls')].op = "remove"
    /\ calls'[Len(calls')].res = "not_found"

\* the step is the lock call after a remove_code(before) that found nothing
AfterNotFoundStep ==
    /\ calls # <<>>
    /\ IsUpdateRemove(calls[Len(calls)])
    /\ calls[Len(calls)].res = "not_found"
    /\ Len(calls') = Len(calls) + 1

C15_Step ==
    /\ NotFoundStep =>
          /\ lock' = lock
          /\ outcome' # "raised"
          /\ (pc' = "calls" \/ AllProcessed')
    /\ AfterNotFoundStep =>
          /\ calls'[Len(calls')].op = "add"
          /\ calls'[Len(calls')].id = calls[Len(calls)].id
          /\ calls'[Len(calls')].kind = calls[Len(calls)].kind

\* C15: a remove_code call for a code value no record carries leaves the
\* lock as it is and raises nothing; the pass goes on (it has items left or
\* is complete), and after such a remove_code(before) the next lock call is
\* add_code(after) of the same change.
C15_NotFoundIsNoError == [][C15_Step]_vars

\* the code of an extended stay was already swept: remove_code finds nothing
\* and add_code creates the code for the new dates
C15_Witness ==
    \E i \in DOMAIN calls :
        /\ IsUpdateRemove(calls[i])
        /\ calls[i].res = "not_found"
        /\ AddFollows(i)
        /\ calls[i + 1].res = "created"

(***************************************************************************)
(* SpecLock: one remove_code call, or one cleanup_old_codes, on a lock     *)
(* that other users share: records carry the Guest_ tag or not, a name     *)
(* need not agree with the code value, two records may carry one code      *)
(* value, and validity ends lie on both sides of the sweep cutoff.         *)
(***************************************************************************)
MaxLock == 2        \* the lock holds the records 1..MaxLock at most

OwnerName == [prefix |-> "Owner", rest |-> 0]       \* a code of the host
LockCodes == {0, 1}
LockNames == {CodeName(c) : c \in LockCodes} \cup {OwnerName}
\* validity ends: 15 days ago, a minute before the cutoff, the cutoff, 10 days ago
LockEnds == {SyncTime - 15 * DayMinutes, CutoffDate(SyncTime) - 1,
             CutoffDate(SyncTime), SyncTime - 10 * DayMinutes}

NoRecord == [id |-> 0]
RecordsAt(n) ==
    {[id |-> n, code |-> c, name |-> nm, begin |-> e - DayMinutes, end |-> e,
      owner |-> "other"] : c \in LockCodes, nm \in LockNames, e \in LockEnds}

LockStates ==
    {{f[n] : n \in 1..MaxLock} \ {NoRecord} :
        f \in {g \in [1..MaxLock -> UNION {RecordsAt(n) : n \in 1..MaxLock} \cup {NoRecord}] :
                 \A n \in 1..MaxLock : g[n] = NoRecord \/ g[n].id = n}}

InitLock ==
    /\ lock \in LockStates
    /\ pc \in {"remove", "sweep"}
    /\ dryRun \in BOOLEAN
    /\ (pc = "remove" => ~dryRun)
    /\ stateFile = MissingFile
    /\ now = SyncTime
    /\ lockApi = "ok"
    /\ state = EmptyState
    /\ current = NoBookings
    /\ changes = NoChanges
    /\ step = 1
    /\ calls = <<>>
    /\ fetched = "ok"
    /\ wrote = FALSE
    /\ outcome = "running"
    /\ faulted = FALSE
    /\ prevBookings = NoBookings
    /\ removed = 0
    /\ round = 0

\* lock.remove_code(code, guest_name)
RemoveStep(code, fault) ==
    /\ pc = "remove"
    /\ LET call == RemoveCall([id |-> "other", code |-> code], "cancellation")
       IN  \E pick \in Picks(lock, call) :
              LET r == DoCall(lock, call, pick, fault)
              IN  /\ lock' = r.lock
                  /\ calls' = <<r.entry>>
                  /\ faulted' = (fault = "error")
                  /\ outcome' = IF r.raised THEN "raised" ELSE "returned"
    /\ pc' = "removed"
    /\ UNCHANGED <<stateFile, now, dryRun, lockApi, state, current, changes, step,
                   fetched, wrote, prevBookings, removed, round>>

NextLock ==
    \/ \E code \in LockCodes, fault \in FaultKinds : RemoveStep(code, fault)
    \/ \E fault \in FaultKinds, failed \in SUBSET lock : Sweep(fault, failed)

SpecLock == InitLock /\ [][NextLock]_vars

\* the step is one remove_code call
IsRemoveStep == pc = "remove" /\ pc' = "removed"

\* C16: a remove_code(code) call takes at most one record off the lock, a
\* record whose code value is the given code (whatever its name), exactly
\* one when it reports a deletion, and leaves every other record as it was.
C16_RemoveByCodeValue ==
    [][IsRemoveStep =>
          /\ lock' \subseteq lock
          /\ Cardinality(lock \ lock') <= 1
          /\ \A r \in lock \ lock' : r.code = calls'[1].code
          /\ (calls'[1].res = "deleted" <=> Cardinality(lock \ lock') = 1)]_vars

\* a record was deleted for its code value while a record that bears the
\* name of that code, with another code value, stayed
C16_Witness ==
    /\ pc = "removed"
    /\ calls[1].res = "deleted"
    /\ \E r \in lock : r.name = CodeName(calls[1].code) /\ r.code # calls[1].code

\* the step is one cleanup_old_codes
IsSweepStep == pc = "sweep" /\ pc' = "save"

\* the record bears the ownership tag; its validity ended before now - 14 days
Tagged(r) == r.name.prefix = "Guest_"
Old(r) == r.end < now - GraceDays * DayMinutes

\* C17: a sweep that is no dry run and meets no lock failure deletes every
\* Guest_ code whose end is before now - 14 days and keeps every code whose
\* end is at or after that instant.
C17_SweepAtCutoff ==
    [][(IsSweepStep /\ ~dryRun /\ ~faulted') =>
          \A r \in lock :
              /\ (Tagged(r) /\ Old(r)) => r \notin lock'
              /\ ~Old(r) => r \in lock']_vars

\* a code that ended 15 days ago was deleted, one that ended 10 days ago and
\* one that ends at the cutoff would stay: here the one of 10 days ago
C17_Witness ==
    /\ pc = "save"
    /\ ~dryRun
    /\ ~faulted
    /\ \E i \in DOMAIN calls :
          /\ calls[i].op = "delete"
          /\ calls[i].res = "deleted"
          /\ calls[i].end = now - 15 * DayMinutes
    /\ \E r \in lock : Tagged(r) /\ r.end = now - 10 * DayMinutes

\* C18: whatever a sweep takes off the lock bears the Guest_ tag.
C18_SweepOnlyTagged ==
    [][IsSweepStep => \A r \in lock \ lock' : Tagged(r)]_vars

\* the sweep deleted a code and left an untagged record that ended long ago
C18_Witness ==
    /\ pc = "save"
    /\ \E i \in DOMAIN calls : calls[i].op = "delete" /\ calls[i].res = "deleted"
    /\ \E r \in lock : ~Tagged(r) /\ Old(r)

\* the loop of the sweep ran: get_lock_api and get_keys answered
LoopRan == ~(faulted' /\ calls' = calls)

\* the delete calls of this sweep
SweepLog == SubSeq(calls', Len(calls) + 1, Len(calls'))

\* C19: in a sweep that is no dry run, every eligible code gets its delete
\* call, also after a delete call failed; every code whose delete call
\* succeeded is gone, and removed_count is the number of those.
C19_SweepGoesOn ==
    [][(IsSweepStep /\ ~dryRun /\ LoopRan) =>
          /\ \A r \in lock :
                (Tagged(r) /\ Old(r)) =>
                    \E i \in DOMAIN SweepLog :
                        /\ SweepLog[i].record = r.id
                        /\ (SweepLog[i].res = "deleted" <=> r \notin lock')
          /\ removed' = Cardinality({i \in DOMAIN SweepLog : SweepLog[i].res = "deleted"})
          /\ removed' = Cardinality(lock \ lock')]_vars

\* the first delete call failed, the second one was still made and counted
C19_Witness ==
    /\ pc = "save"
    /\ ~dryRun
    /\ Len(calls) = 2
    /\ calls[1].op = "delete" /\ calls[1].res = "error"
    /\ calls[2].op = "delete" /\ calls[2].res = "deleted"
    /\ removed = 1
    /\ Cardinality(lock) = 1

(***************************************************************************)
(* SpecLoad: load_bookings_state on every content the state file may have: *)
(* missing, text that is no JSON, bytes that are no text, or a saved       *)
(* state.  (The program itself writes JSON text only, so the third kind    *)
(* does not occur in Spec.)                                                *)
(***************************************************************************)
\* bytes that do not decode as text: open(...) / json.load raise
\* UnicodeDecodeError, which is no JSONDecodeError
GarbledFile == [kind |-> "garbled", bookings |-> NoBookings, warnings |-> {}]

FileStates ==
    {MissingFile, TruncatedFile, GarbledFile}
    \cup {ValidFile([bookings |-> P, warnings |-> W]) : P \in Snapshots, W \in {{}, {"1month"}}}

\* line 269 catches json.JSONDecodeError only
LoadRaises(file) == file.kind = "garbled"

InitLoad ==
    /\ stateFile \in FileStates
    /\ pc = "load"
    /\ lock = {}
    /\ now = SyncTime
    /\ dryRun = FALSE
    /\ lockApi = "none"
    /\ state = EmptyState
    /\ current = NoBookings
    /\ changes = NoChanges
    /\ step = 1
    /\ calls = <<>>
    /\ fetched = "none"
    /\ wrote = FALSE
    /\ outcome = "running"
    /\ faulted = FALSE
    /\ prevBookings = NoBookings
    /\ removed = 0
    /\ round = 0

\* sync line 581: state = self.load_bookings_state()
Load ==
    /\ pc = "load"
    /\ IF LoadRaises(stateFile)
       THEN pc' = "idle" /\ outcome' = "raised" /\ UNCHANGED state
       ELSE pc' = "loaded" /\ state' = LoadBookingsState(stateFile) /\ UNCHANGED outcome
    /\ UNCHANGED <<stateFile, lock, now, dryRun, lockApi, current, changes, step, calls,
                   fetched, wrote, faulted, prevBookings, removed, round>>

NextLoad == Load

SpecLoad == InitLoad /\ [][NextLoad]_vars

\* C20: load_bookings_state raises for no content of the state file; it
\* gives the stored state for a valid file and the empty default otherwise.
C20_LoadNeverRaises ==
    pc # "load" =>
        /\ outcome # "raised"
        /\ state = IF stateFile.kind = "valid"
                   THEN [bookings |-> stateFile.bookings, warnings |-> stateFile.warnings]
                   ELSE EmptyState

(***************************************************************************)
(* Further properties of Spec: the state file across invocations.          *)
(***************************************************************************)
\* the state file holds a complete state (or was never written)
CompleteFile == stateFile.kind \in {"missing", "valid"}

\* C21: whenever no invocation is running, also after one was killed in the
\* middle of save_bookings_state, the state file holds a complete state, the
\* old one or the new one, never a truncated content that loads as empty.
C21_SaveIsAtomic ==
    pc = "idle" => CompleteFile

\* the warning level of the configured key at the time of the run
DueLevel == WarningLevel(DaysUntil(KeyExpires[1], now))

\* the already-fired flags a load of the state file gives
PersistedWarnings == LoadBookingsState(stateFile).warnings

\* C22: a flag check_api_key_expiration has set stays in the state file.  An
\* invocation that ran to its end has passed the expiry check, which found
\* the flag of the due level set or set it; so after such an invocation the
\* file holds that flag, and the next invocation does not notify again.
C22_WarningFlagsDurable ==
    (pc = "idle" /\ outcome = "saved") => DueLevel \in PersistedWarnings

(***************************************************************************)
(* SpecNotify: one pass of sync after a successful fetch (process_changes, *)
(* cleanup_old_codes, save_bookings_state) with the lock answering every   *)
(* call, under every behaviour of the notification channel.                *)
(*                                                                         *)
(* send_whatsapp_notification (sync.py 87-102) returns at once when        *)
(* NOTIFICATION_NUMBER is unset; else it imports notifications and calls   *)
(* send_notification (notifications.py 13-77), which runs the openclaw CLI *)
(* and handles a non-zero exit, a missing CLI and a timeout itself.  A     *)
(* failing import is an exception inside send_whatsapp_notification.       *)
(***************************************************************************)
Deliveries == {"unset", "sent", "failed", "no_module"}

\* the exception the body of the try block (lines 95-97) ends with, if any
SendException(deliver) == IF deliver = "no_module" THEN "ImportError" ELSE "none"

\* faulty variant: the handler of send_whatsapp_notification lets it through
SendCatchesNothing(exc) == FALSE

\* line 98: except Exception
SendCatches(exc) == exc \in {"ImportError", "Exception"}

\* an exception leaves send_whatsapp_notification
SendRaises(deliver) ==
    SendException(deliver) # "none" /\ ~SendCatches(SendException(deliver))

\* process_changes notifies after the remove_code of a cancellation (459) and
\* after every add_code (483, 513), not after the remove_code of an update
Notifies(call) == call.op = "add" \/ call.kind = "cancellation"

\* one lock call of process_changes with the notification that follows it
DoCallNotify(lk, call, pick, deliver) ==
    LET r     == DoCall(lk, call, pick, "ok")
        sends == ~r.raised /\ Notifies(call)
    IN  [lock   |-> r.lock,
         raised |-> r.raised \/ (sends /\ SendRaises(deliver)),
         op     |-> [op |-> r.entry.op, code |-> r.entry.code, res |-> r.entry.res],
         entry  |-> [op |-> r.entry.op, code |-> r.entry.code, id |-> r.entry.id,
                     kind |-> r.entry.kind, res |-> r.entry.res,
                     note |-> IF sends THEN deliver ELSE "none"]]

\* the lock operations of the sweep, in the order of DeleteEntries
SweepOps(lk, t) ==
    LET es == DeleteEntries(SweepEligible(lk, t), {})
    IN  [i \in DOMAIN es |-> [op |-> "delete", code |-> es[i].code, res |-> es[i].res]]

\* process_changes on lock lk with every notification behaving as deliver
RECURSIVE RunCalls(_, _, _)
RunCalls(lk, plan, deliver) ==
    IF plan = <<>> THEN [lock |-> lk, ops |-> <<>>, raised |-> FALSE]
    ELSE LET call == Head(plan)
             pick == CHOOSE r \in Picks(lk, call) : TRUE
             r    == DoCallNotify(lk, call, pick, deliver)
             rest == RunCalls(r.lock, Tail(plan), deliver)
         IN  IF r.raised
             THEN [lock |-> r.lock, ops |-> <<r.op>>, raised |-> TRUE]
             ELSE [lock |-> rest.lock, ops |-> <<r.op>> \o rest.ops, raised |-> rest.raised]

\* sync lines 590-608 on lock lk: the lock operations, the lock and the
\* persisted snapshot it ends with
RunPass(lk, prev, cur, chg, t, deliver) ==
    LET a == RunCalls(lk, ProcessCalls(chg), deliver)
    IN  IF a.raised
        THEN [lock |-> a.lock, ops |-> a.ops, persisted |-> prev]
        ELSE [lock |-> a.lock \ SweepEligible(a.lock, t),
              ops |-> a.ops \o SweepOps(a.lock, t),
              persisted |-> cur]

\* the lock the pass starts on: what the sync that persisted P left
LockAtStart(P) == LockOf(P, CHOOSE order \in Orders : TRUE)

InitNotify ==
    /\ stateFile \in {ValidFile([bookings |-> P, warnings |-> {}]) : P \in PlainSnapshots}
    /\ current \in PlainSnapshots \ {NoBookings}
    /\ state = LoadBookingsState(stateFile)
    /\ changes \in {DetectChanges(state, current, order) : order \in Orders}
    /\ TotalChanges(changes) > 0
    /\ lock = LockAtStart(state.bookings)
    /\ now = SyncTime
    /\ pc = "calls"
    /\ dryRun = FALSE
    /\ lockApi = "ok"
    /\ step = 1
    /\ calls = <<>>
    /\ fetched = "ok"
    /\ wrote = FALSE
    /\ outcome = "running"
    /\ faulted = FALSE
    /\ prevBookings = state.bookings
    /\ removed = 0
    /\ round = 0

\* process_changes: the next lock call and its notification
NotifyCall(deliver) ==
    /\ pc = "calls"
    /\ LET plan == ProcessCalls(changes)
           call == plan[step]
       IN  \E pick \in Picks(lock, call) :
              LET r == DoCallNotify(lock, call, pick, deliver)
              IN  /\ lock' = r.lock
                  /\ calls' = Append(calls, r.entry)
                  /\ step' = step + 1
                  /\ IF r.raised
                     THEN pc' = "idle" /\ outcome' = "raised"
                     ELSE /\ pc' = IF step = Len(plan) THEN "sweep" ELSE "calls"
                          /\ outcome' = outcome
    /\ UNCHANGED <<stateFile, now, dryRun, lockApi, state, current, changes,
                   fetched, wrote, faulted, prevBookings, removed, round>>

\* cleanup_old_codes: the deletions, then the notification of the count; an
\* exception of that notification is caught by the handler at line 573
NotifySweep(deliver) ==
    /\ pc = "sweep"
    /\ LET eligible == SweepEligible(lock, now)
           count    == RemovedCount(eligible, {}, dryRun)
       IN  /\ lock' = lock \ eligible
           /\ removed' = count
           /\ calls' = calls \o DeleteEntries(eligible, {})
                       \o (IF count > 0
                           THEN <<[op |-> "notify", kind |-> "sweep", note |-> deliver]>>
                           ELSE <<>>)
    /\ pc' = "save"
    /\ UNCHANGED <<stateFile, now, dryRun, lockApi, state, current, changes, step,
                   fetched, wrote, outcome, faulted, prevBookings, round>>

\* sync lines 604-608: the final save_bookings_state, and sync returns
NotifySave ==
    /\ pc = "save"
    /\ state' = NewState(current)
    /\ stateFile' = ValidFile(NewState(current))
    /\ wrote' = TRUE
    /\ pc' = "idle"
    /\ outcome' = "saved"
    /\ UNCHANGED <<lock, now, dryRun, lockApi, current, changes, step, calls,
                   fetched, faulted, prevBookings, removed, round>>

NextNotify ==
    \/ \E deliver \in Deliveries : NotifyCall(deliver)
    \/ \E deliver \in Deliveries : NotifySweep(deliver)
    \/ NotifySave

SpecNotify == InitNotify /\ [][NextNotify]_vars

\* the lock operations of the invocation, without what only the log shows
LockOps ==
    LET es == SelectSeq(calls, LAMBDA e : e.op \in {"add", "remove", "delete"})
    IN  [i \in DOMAIN es |-> [op |-> es[i].op, code |-> es[i].code, res |-> es[i].res]]

\* how the notification of log entry e went ("none": the entry has none)
NoteOf(e) == IF "note" \in DOMAIN e THEN e.note ELSE "none"

\* the same pass with every notification delivered
Delivered ==
    RunPass(LockAtStart(prevBookings), prevBookings, current, changes, now, "sent")

\* C23: no notification outcome makes the pass raise, and whatever the
\* notifications did, the finished pass has made the lock operations, left
\* the lock and persisted the snapshot of the pass in which every
\* notification is delivered.
C23_NotificationsNeverAbort ==
    /\ outcome # "raised"
    /\ pc = "idle" =>
          /\ LockOps = Delivered.ops
          /\ lock = Delivered.lock
          /\ LoadBookingsState(stateFile).bookings = Delivered.persisted

\* a finished pass with a cancellation, an add and a swept code in which no
\* notification got through, one of them for want of the notifications module
C23_Witness ==
    /\ pc = "idle"
    /\ outcome = "saved"
    /\ \A i \in DOMAIN calls : NoteOf(calls[i]) \notin {"sent"}
    /\ \E i \in DOMAIN calls : calls[i].op = "remove" /\ NoteOf(calls[i]) = "no_module"
    /\ \E i \in DOMAIN calls : calls[i].op = "add" /\ NoteOf(calls[i]) = "failed"
    /\ \E i \in DOMAIN calls : calls[i].op = "notify" /\ NoteOf(calls[i]) = "no_module"
    /\ lock # LockAtStart(prevBookings)

(***************************************************************************)
(* Further properties of Spec: dry runs, the order of the phases.          *)
(***************************************************************************)
\* a step inside a dry-run invocation
DryRunStep == dryRun /\ dryRun'

\* C24: a dry-run invocation issues no create or delete call, in the apply
\* phase as in the sweep, and every one of its steps leaves the lock as it is.
C24_DryRunTouchesNothing ==
    /\ [](dryRun => calls = <<>>)
    /\ [][DryRunStep => lock' = lock]_vars

\* a dry run past its sweep that had a cancellation and an update to apply
\* and an old code to sweep
C24_Witness ==
    /\ dryRun
    /\ pc = "save"
    /\ changes.cancellations # <<>>
    /\ Updates # {}
    /\ removed > 0
    /\ SweepEligible(lock, now) # {}
    /\ calls = <<>>

\* the phase of sync a position belongs to: the expiry check (line 579), load
\* and fetch and detect (581-590), apply (595), sweep (601), persist (604-608)
PhaseOf(p) ==
    CASE p \in {"expiry", "expiry_dump"} -> 1
      [] p = "fetch" -> 2
      [] p \in {"apply", "calls"} -> 3
      [] p = "sweep" -> 4
      [] p \in {"save", "save_dump"} -> 5
      [] OTHER -> 0

\* process_changes is over: nothing was to apply, or it only logged (dry
\* run), or the lock could not be reached (no lock call was issued), or
\* every lock call was issued
ApplyFinished ==
    /\ pc \notin {"apply", "calls"}
    /\ TotalChanges(changes) = 0 \/ dryRun \/ step = 1 \/ AllProcessed

C25_Step ==
    /\ (pc = "idle" /\ pc' # "idle") => pc' = "expiry"
    /\ (pc # "idle" /\ pc' # "idle") =>
          \/ PhaseOf(pc') = PhaseOf(pc)
          \/ PhaseOf(pc') = PhaseOf(pc) + 1
          \/ pc = "fetch" /\ pc' = "sweep" /\ TotalChanges(changes') = 0
    /\ (pc' = "sweep" /\ pc # "sweep") => ApplyFinished'
    /\ (pc' = "save" /\ pc # "save") => (pc = "sweep" /\ ApplyFinished)

\* C25: an invocation starts with the expiry check and moves from each phase
\* to the next one only (apply is skipped when nothing changed); it saves
\* the state only after the sweep, which comes only after process_changes is
\* over; and an invocation whose fetch failed has ended there, with nothing
\* detected, no lock call, no sweep and no final save.
C25_PhaseOrder ==
    /\ [][C25_Step]_vars
    /\ [](PhaseOf(pc) = 5 => (fetched = "ok" /\ ApplyFinished))
    /\ [](fetched = "failed" =>
            /\ pc = "idle"
            /\ outcome = "no_bookings"
            /\ changes = NoChanges
            /\ calls = <<>>
            /\ lockApi = "none")

\* an invocation that went through all phases: lock calls of the change set,
\* then a deletion of the sweep, then the final save
C25_Witness ==
    /\ pc = "idle"
    /\ outcome = "saved"
    /\ Len(calls) >= 3
    /\ calls[1].op = "remove"
    /\ calls[2].op = "add"
    /\ calls[Len(calls)].op = "delete"
    /\ LoadBookingsState(stateFile).bookings = current

(***************************************************************************)
(* SpecCode: one calendar event is parsed and its code is added, and later *)
(* (at another time, on the lock the first round left) the same event is   *)
(* parsed and added again; the lock holds the codes of some earlier sync.  *)
(***************************************************************************)
\* the times the two rounds run at
CodeTimes == {0, SyncTime, SyncTime + DayMinutes}

\* the calendar event a booking record was parsed from
EventOf(b) == [start |-> FromIso(b.start), end |-> FromIso(b.end), phone |-> b.phone_last4]

\* add_code lines 700-728: active_start and active_end of a booking
Window(b) == [begin |-> ActiveStart(b.start), end |-> ActiveEnd(b.end)]

\* the log entry of one add_code call: the code, the window, what the lock said
ProvisionEntry(b, res) ==
    [op |-> "add", id |-> b.id, code |-> b.code, kind |-> "new_booking",
     start |-> b.start, end |-> b.end, window |-> Window(b), res |-> res]

InitCode ==
    /\ stateFile = MissingFile
    /\ now \in CodeTimes
    /\ lock \in {LockOf(P, order) : P \in PlainSnapshots, order \in Orders}
    /\ pc = "parse"
    /\ dryRun = FALSE
    /\ lockApi = "ok"
    /\ state = EmptyState
    /\ current = NoBookings
    /\ changes = NoChanges
    /\ step = 1
    /\ calls = <<>>
    /\ fetched = "none"
    /\ wrote = FALSE
    /\ outcome = "running"
    /\ faulted = FALSE
    /\ prevBookings = NoBookings
    /\ removed = 0
    /\ round = 1

\* _parse_ical of one event, then add_code of the record; time passes
Provision(id, ev, t) ==
    /\ pc = "parse"
    /\ LET b == ParseEvent(id, ev)
           r == AddCode(lock, b, "ok")
       IN  /\ current' = [i \in {id} |-> b]
           /\ lock' = r.lock
           /\ calls' = Append(calls, ProvisionEntry(b, r.res))
    /\ now' = t
    /\ round' = 2
    /\ pc' = "again"
    /\ fetched' = "ok"
    /\ UNCHANGED <<stateFile, dryRun, lockApi, state, changes, step, wrote,
                   outcome, faulted, prevBookings, removed>>

\* the same event is parsed again and its record is added again
ProvisionAgain ==
    /\ pc = "again"
    /\ \E id \in DOMAIN current :
          LET b == ParseEvent(id, EventOf(current[id]))
              r == AddCode(lock, b, "ok")
          IN  /\ lock' = r.lock
              /\ calls' = Append(calls, ProvisionEntry(b, r.res))
    /\ pc' = "done"
    /\ UNCHANGED <<stateFile, now, dryRun, lockApi, state, current, changes, step,
                   fetched, wrote, outcome, faulted, prevBookings, removed, round>>

NextCode ==
    \/ \E id \in Ids, ev \in Events, t \in CodeTimes : Provision(id, ev, t)
    \/ ProvisionAgain

SpecCode == InitCode /\ [][NextCode]_vars

\* check-in time on the start date minus the activation buffer (16:00, 5 min)
\* and check-out time on the end date plus the expiration buffer (11:00, 15 min)
ExpectedWindow(e) ==
    [begin |-> FromIso(e.start) * 1440 + 16 * 60 - 5,
     end   |-> FromIso(e.end) * 1440 + 11 * 60 + 15]

\* C26: every add_code call computes the window [check-in - 5 min, check-out
\* + 15 min] of its booking; a record the lock created carries that window;
\* and the second processing of the same event gives the code and the
\* window of the first, whatever the time and the lock content of each.
C26_CodeAndWindowDeterministic ==
    /\ \A i \in DOMAIN calls : calls[i].window = ExpectedWindow(calls[i])
    /\ \A i \in DOMAIN calls :
          calls[i].res = "created" =>
              \E r \in lock : /\ r.code = calls[i].code
                             /\ r.begin = calls[i].window.begin
                             /\ r.end = calls[i].window.end
    /\ pc = "done" =>
          /\ calls[2].code = calls[1].code
          /\ calls[2].window = calls[1].window

\* both rounds ran, at different times, the first created the code (of a
\* guest without a phone fragment), the second met it on the lock
C26_Witness ==
    /\ pc = "done"
    /\ now # 0
    /\ calls[1].res = "created"
    /\ calls[2].res = "duplicate"
    /\ \E id \in DOMAIN current : current[id].phone_last4 = NoPhone
    /\ Cardinality(lock) > 1

\* the place of a class of changes in process_changes: cancellations (456),
\* new bookings (461), extensions, date changes (491); the sweep comes after
ClassRank(kind) ==
    CASE kind = "cancellation" -> 1
      [] kind = "new_booking" -> 2
      [] kind = "extension" -> 3
      [] kind = "date_change" -> 4
      [] OTHER -> 5

\* C27: the lock calls of an invocation come class by class: the
\* remove_code of every cancellation before any add_code of a new booking,
\* those before the calls of any extension, those before the calls of any
\* date change.
C27_ClassOrder ==
    \A i, j \in DOMAIN calls :
        i < j => ClassRank(calls[i].kind) <= ClassRank(calls[j].kind)

\* a finished pass that removed the code of a cancelled booking and then
\* created the code of a new one
C27_Witness ==
    /\ PassDone
    /\ Len(calls) >= 2
    /\ calls[1].kind = "cancellation" /\ calls[1].res = "deleted"
    /\ calls[2].kind = "new_booking" /\ calls[2].res = "created"

\* reachable as well: a new booking before an extension, an extension before
\* a date change
OtherClassOrders ==
    /\ PassDone
    /\ Len(calls) >= 3
    /\ \/ calls[1].kind = "new_booking" /\ calls[3].kind = "extension"
       \/ calls[2].kind = "extension" /\ calls[3].kind = "date_change"

(***************************************************************************)
(* Further properties of SpecLive: invocations that are not dry runs, with *)
(* the lock answering every call, from the empty state and the empty lock. *)
(***************************************************************************)
\* the window of booking b has not ended before the cutoff of the sweep
NotYetOld(b) == ActiveEnd(b.end) >= CutoffDate(now)

\* C28: after every invocation that ran to its end, each booking of the
\* persisted snapshot whose window is not older than the sweep cutoff has a
\* record with its code value on the lock.
C28_PersistedBookingsHaveCodes ==
    (pc = "idle" /\ outcome = "saved") =>
        \A id \in DOMAIN LoadBookingsState(stateFile).bookings :
            LET b == LoadBookingsState(stateFile).bookings[id]
            IN  NotYetOld(b) => HasCode(lock, b.code)

(***************************************************************************)
(* SpecPass: one pass of sync after a successful fetch, on every pair of a *)
(* persisted snapshot and a fetched snapshot in which some booking has     *)
(* kept its dates; guests may have a phone fragment in one snapshot and    *)
(* none in the other, so the code of a booking may differ while its dates  *)
(* do not.  The lock answers every call.                                   *)
(***************************************************************************)
\* the bookings present in both snapshots with the same start and end
KeptDates(prev, cur) ==
    {id \in DOMAIN prev \cap DOMAIN cur :
        prev[id].start = cur[id].start /\ prev[id].end = cur[id].end}

InitPass ==
    /\ stateFile \in {ValidFile([bookings |-> P, warnings |-> {}]) : P \in Snapshots}
    /\ current \in Snapshots
    /\ state = LoadBookingsState(stateFile)
    /\ KeptDates(state.bookings, current) # {}
    /\ changes \in {DetectChanges(state, current, order) : order \in Orders}
    /\ lock = LockAtStart(state.bookings)
    /\ now = SyncTime
    /\ pc = IF TotalChanges(changes) = 0 THEN "sweep" ELSE "apply"
    /\ dryRun = FALSE
    /\ lockApi = "none"
    /\ step = 1
    /\ calls = <<>>
    /\ fetched = "ok"
    /\ wrote = FALSE
    /\ outcome = "running"
    /\ faulted = FALSE
    /\ prevBookings = state.bookings
    /\ removed = 0
    /\ round = 0

NextPass ==
    \/ Connect("ok")
    \/ ApplyCall("ok")
    \/ Sweep("ok", {})
    \/ SaveOpen
    \/ SaveDump

SpecPass == InitPass /\ [][NextPass]_vars

\* a remove_code or add_code call made for booking id
CallsFor(id) == {i \in DOMAIN calls : calls[i].op \in {"add", "remove"} /\ calls[i].id = id}

\* C29: a booking with the same start and end in both snapshots is in no
\* list of the change set and gets no remove_code and no add_code call in
\* the pass, whatever its code was and is; after the final save the state
\* file holds its current record.
C29_SameDatesNoLockCall ==
    \A id \in KeptDates(prevBookings, current) :
        /\ \A kind \in {"cancellation", "new_booking", "extension", "date_change"} :
              id \notin IdsOfKind(changes, kind)
        /\ CallsFor(id) = {}
        /\ outcome = "saved" => LoadBookingsState(stateFile).bookings[id] = current[id]

\* a finished pass in which b1 kept its dates and changed its code, while b2
\* was re-dated with lock calls of its own
C29_Witness ==
    /\ pc = "idle"
    /\ outcome = "saved"
    /\ "b1" \in KeptDates(prevBookings, current)
    /\ prevBookings["b1"].code # current["b1"].code
    /\ LoadBookingsState(stateFile).bookings["b1"].code = current["b1"].code
    /\ CallsFor("b2") # {}
    /\ CallsFor("b1") = {}

(***************************************************************************)
(* Further properties of Spec: what a dry run persists.                    *)
(***************************************************************************)
\* C30: an invocation that ran to its final save, dry run or not, leaves the
\* fetched snapshot in the state file; after a dry run the next invocation
\* against the same calendar therefore detects no change.
C30_DryRunAdvancesSnapshot ==
    (pc = "idle" /\ outcome = "saved") =>
        /\ LoadBookingsState(stateFile).bookings = current
        /\ dryRun => TotalChanges(NextDetection) = 0

\* a dry run that previewed a new booking and a cancellation: no lock call
\* was made, the new booking has no code on the lock, the snapshot is saved
C30_Witness ==
    /\ pc = "idle"
    /\ outcome = "saved"
    /\ dryRun
    /\ changes.new_bookings # <<>>
    /\ changes.cancellations # <<>>
    /\ calls = <<>>
    /\ ~HasCode(lock, changes.new_bookings[1].code)
    /\ HasCode(lock, changes.cancellations[1].code)
    /\ LoadBookingsState(stateFile).bookings # prevBookings

(***************************************************************************)
(* SpecAnnounce: the pass of SpecNotify on a lock whose calls may fail.    *)
(* add_code logs every exception of the create call and returns (758-762); *)
(* process_changes goes on to the notification (483, 513).                 *)
(***************************************************************************)
\* the notification channel is configured: the message gets through or not
ChannelOutcomes == {"sent", "failed"}

\* one lock call of process_changes, answered or failing, with the
\* notification that follows it when the call returned
DoCallAnnounce(lk, call, pick, fault, deliver) ==
    LET r     == DoCall(lk, call, pick, fault)
        sends == ~r.raised /\ Notifies(call)
    IN  [lock   |-> r.lock,
         raised |-> r.raised \/ (sends /\ SendRaises(deliver)),
         entry  |-> [op |-> r.entry.op, code |-> r.entry.code, id |-> r.entry.id,
                     kind |-> r.entry.kind, res |-> r.entry.res,
                     note |-> IF sends THEN deliver ELSE "none"]]

\* process_changes: the next lock call and its notification
AnnounceCall(fault, deliver) ==
    /\ pc = "calls"
    /\ LET plan == ProcessCalls(changes)
           call == plan[step]
       IN  \E pick \in Picks(lock, call) :
              LET r == DoCallAnnounce(lock, call, pick, fault, deliver)
              IN  /\ lock' = r.lock
                  /\ calls' = Append(calls, r.entry)
                  /\ step' = step + 1
                  /\ faulted' = (faulted \/ fault = "error")
                  /\ IF r.raised
                     THEN pc' = "idle" /\ outcome' = "raised"
                     ELSE /\ pc' = IF step = Len(plan) THEN "sweep" ELSE "calls"
                          /\ outcome' = outcome
    /\ UNCHANGED <<stateFile, now, dryRun, lockApi, state, current, changes,
                   fetched, wrote, prevBookings, removed, round>>

NextAnnounce ==
    \/ \E fault \in FaultKinds, deliver \in ChannelOutcomes : AnnounceCall(fault, deliver)
    \/ \E deliver \in ChannelOutcomes : NotifySweep(deliver)
    \/ NotifySave

SpecAnnounce == InitNotify /\ [][NextAnnounce]_vars

\* log entry e is the add_code of a new booking whose "New lock code"
\* message was sent
NewCodeAnnounced(e) ==
    e.op = "add" /\ e.kind = "new_booking" /\ NoteOf(e) = "sent"

\* C31: a "New lock code" message was sent only for a new booking whose
\* create call the lock answered by creating the code.
C31_AnnouncedOnlyIfCreated ==
    \A i \in DOMAIN calls : NewCodeAnnounced(calls[i]) => calls[i].res = "created"

====
